---- MODULE Spec2Model ----
(***************************************************************************)
(* Model of fix_windows_cuda.py: a script that patches a fixed set of      *)
(* third-party source files so that they build with MSVC.                  *)
(*                                                                         *)
(* A file's text is a sequence of symbols.  A symbol is either a single     *)
(* character (a member of Chars, or a white-space character of WS) or a     *)
(* chunk: a fixed multi-character piece of text that the files of the model *)
(* only ever contain whole.  The chunks are cut so that every string the    *)
(* script searches for is a sequence of whole symbols, and so that no       *)
(* searched string can start or end inside a chunk.                         *)
(***************************************************************************)
EXTENDS Integers, Sequences, FiniteSets, TLC

\* ---------------------------------------------------------------- bounds
MaxLen == 4        \* symbols in flexible_dual_grid.cpp
MaxBlocks == 2     \* sections in setup.py
MaxLines == 1      \* statements in filter_neighbor.cpp / filter_parent.cpp
MaxSvoLines == 2   \* statements in svo.cpp
MaxKernelLines == 2 \* statements in neighbor_map.cu
MaxManifestLen == 2 \* lines in MANIFEST.in
MaxPartial == 1    \* symbols of a file that a failed write may leave behind
MaxFaults == 1     \* I/O errors the environment raises in one behaviour
MaxRuns == 2       \* invocations of the script in one behaviour

\* ------------------------------------------------------- text primitives
Min(a, b) == IF a < b THEN a ELSE b

RECURSIVE Concat(_)
\* ''.join(parts)
Concat(parts) ==
    IF parts = <<>> THEN <<>> ELSE Head(parts) \o Concat(Tail(parts))

RECURSIVE SumSeq(_)
SumSeq(s) == IF s = <<>> THEN 0 ELSE Head(s) + SumSeq(Tail(s))

\* text[pos:].startswith(pat), pos counted from 1
StartsAt(text, pos, pat) ==
    /\ pos + Len(pat) - 1 <= Len(text)
    /\ \A i \in 1..Len(pat) : text[pos + i - 1] = pat[i]

\* pat in text
Contains(text, pat) ==
    \E pos \in 1..(Len(text) + 1) : StartsAt(text, pos, pat)

\* text.find(pat): the 0-based index of the first occurrence, or -1
Find(text, pat) ==
    IF Contains(text, pat)
    THEN (CHOOSE pos \in 1..(Len(text) + 1) :
              /\ StartsAt(text, pos, pat)
              /\ \A q \in 1..(pos - 1) : ~StartsAt(text, q, pat)) - 1
    ELSE -1

\* text[a:b] for 0 <= a, 0 <= b (empty when b <= a)
Slice(text, a, b) == SubSeq(text, a + 1, Min(b, Len(text)))

RECURSIVE ReplaceFrom(_, _, _, _, _)
\* str.replace scanning from pos (1-based) with `count` replacements left
\* (count = -1: no limit); old is not empty
ReplaceFrom(text, old, new, pos, count) ==
    IF pos > Len(text) THEN <<>>
    ELSE IF count # 0 /\ StartsAt(text, pos, old)
         THEN new \o ReplaceFrom(text, old, new, pos + Len(old),
                                 IF count > 0 THEN count - 1 ELSE count)
         ELSE <<text[pos]>> \o ReplaceFrom(text, old, new, pos + 1, count)

RECURSIVE Interleave(_, _)
\* text.replace('', new): new before every character and at the end
Interleave(text, new) ==
    IF text = <<>> THEN new
    ELSE new \o <<Head(text)>> \o Interleave(Tail(text), new)

\* text.replace(old, new, count)
StrReplaceN(text, old, new, count) ==
    IF old = <<>>
    THEN IF count = 0 THEN text
         ELSE IF count = 1 THEN new \o text ELSE Interleave(text, new)
    ELSE ReplaceFrom(text, old, new, 1, count)

\* text.replace(old, new)
StrReplace(text, old, new) == StrReplaceN(text, old, new, -1)

\* number of non-overlapping occurrences: text.count(pat), pat not empty
RECURSIVE CountFrom(_, _, _)
CountFrom(text, pat, pos) ==
    IF pos > Len(text) THEN 0
    ELSE IF StartsAt(text, pos, pat)
         THEN 1 + CountFrom(text, pat, pos + Len(pat))
         ELSE CountFrom(text, pat, pos + 1)

Count(text, pat) == CountFrom(text, pat, 1)

\* len(text.split(sep)), sep not empty
SplitLen(text, sep) == Count(text, sep) + 1

\* text.split(sep)[0]
SplitFirst(text, sep) ==
    LET i == Find(text, sep) IN IF i = -1 THEN text ELSE Slice(text, 0, i)

\* text.split(sep)[1], defined when sep occurs in text
SplitSecond(text, sep) ==
    LET i == Find(text, sep)
        rest == Slice(text, i + Len(sep), Len(text))
    IN  SplitFirst(rest, sep)

\* ---------------------------------------------------- regular expressions
(***************************************************************************)
(* re.sub(pattern, replacement, text).  A compiled pattern is a sequence   *)
(* of atoms [cls, q, g]: cls is the set of symbols the atom accepts, q its *)
(* quantifier ("1", "*" or "+", greedy) and g the number of the capture    *)
(* group the atom is, or 0.  A replacement is a sequence of items          *)
(* [lit |-> symbol] and [ref |-> g].                                       *)
(***************************************************************************)
WS == {" ", "\n"}
Chars == {"0", ".", "d", "x", "(", ")", ";", ","}

Lit(s) == [cls |-> {s}, q |-> "1", g |-> 0]
\* '.': any single character but a newline
Dot == [cls |-> (Chars \cup WS) \ {"\n"}, q |-> "1", g |-> 0]
\* '()': a group that matches the empty string
EmptyGroup == [cls |-> {}, q |-> "*", g |-> 0]

NoMatch == <<-1>>

RECURSIVE RunLen(_, _, _)
\* how many symbols of cls follow one another in text from pos
RunLen(cls, text, pos) ==
    IF pos <= Len(text) /\ text[pos] \in cls
    THEN 1 + RunLen(cls, text, pos + 1)
    ELSE 0

RECURSIVE MatchAtoms(_, _, _, _)
RECURSIVE TryGreedy(_, _, _, _, _, _)
\* pattern.match(text, pos) for the atoms k.. of pat: the number of symbols
\* each atom takes, or NoMatch
MatchAtoms(pat, k, text, pos) ==
    IF k > Len(pat) THEN <<>>
    ELSE LET a == pat[k]
             run == RunLen(a.cls, text, pos)
             lo == IF a.q = "*" THEN 0 ELSE 1
             hi == IF a.q = "1" THEN Min(1, run) ELSE run
         IN  TryGreedy(pat, k, text, pos, hi, lo)

\* a greedy quantifier: the longest run first, backing off one at a time
TryGreedy(pat, k, text, pos, n, lo) ==
    IF n < lo THEN NoMatch
    ELSE LET rest == MatchAtoms(pat, k + 1, text, pos + n)
         IN  IF rest # NoMatch THEN <<n>> \o rest
             ELSE TryGreedy(pat, k, text, pos, n - 1, lo)

\* m.group(g): the text taken by the atom that is group g
GroupText(pat, m, text, pos, g) ==
    LET k == CHOOSE i \in 1..Len(pat) : pat[i].g = g
        start == pos + SumSeq(SubSeq(m, 1, k - 1))
    IN  SubSeq(text, start, start + m[k] - 1)

RECURSIVE Expand(_, _, _, _, _)
\* m.expand(replacement)
Expand(repl, pat, m, text, pos) ==
    IF repl = <<>> THEN <<>>
    ELSE LET it == Head(repl)
             piece == IF "ref" \in DOMAIN it
                      THEN GroupText(pat, m, text, pos, it.ref)
                      ELSE <<it.lit>>
         IN  piece \o Expand(Tail(repl), pat, m, text, pos)

RECURSIVE SubFrom(_, _, _, _)
\* re.sub from pos on: leftmost matches, not overlapping (no pattern of the
\* script matches the empty string)
SubFrom(pat, repl, text, pos) ==
    IF pos > Len(text) THEN <<>>
    ELSE LET m == MatchAtoms(pat, 1, text, pos)
         IN  IF m = NoMatch \/ SumSeq(m) = 0
             THEN <<text[pos]>> \o SubFrom(pat, repl, text, pos + 1)
             ELSE Expand(repl, pat, m, text, pos)
                      \o SubFrom(pat, repl, text, pos + SumSeq(m))

ReSub(pat, repl, text) == SubFrom(pat, repl, text, 1)

RECURSIVE LitsOf(_)
\* a replacement without group references
LitsOf(syms) ==
    IF syms = <<>> THEN <<>>
    ELSE <<[lit |-> Head(syms)]>> \o LitsOf(Tail(syms))

\* -------------------------------------------------- the target files
KernelPath == "tmp/extensions/FlexGEMM/flex_gemm/kernels/cuda/spconv/neighbor_map.cu"
SetupPath == "tmp/extensions/CuMesh/setup.py"
SvoPath == "tmp/extensions/o-voxel/src/io/svo.cpp"
NeighborPath == "tmp/extensions/o-voxel/src/io/filter_neighbor.cpp"
ParentPath == "tmp/extensions/o-voxel/src/io/filter_parent.cpp"
GridPath == "tmp/extensions/o-voxel/src/convert/flexible_dual_grid.cpp"
ManifestDir == "tmp/extensions/nvdiffrec"
ManifestPath == "tmp/extensions/nvdiffrec/MANIFEST.in"
TargetDir == "tmp/extensions/nvdiffrec/nvdiffrec_render/renderutils/c_src"

Paths ==
    {KernelPath, SetupPath, SvoPath, NeighborPath, ParentPath, GridPath,
     ManifestPath}

File(text) == [exists |-> TRUE, text |-> text]
Missing == [exists |-> FALSE, text |-> <<>>]

\* ------------------------------------------- fix_flexgemm_cuda_file rules
KernelOld1 == <<"uint", " tmp = neigh_map[n * V + v];">>
KernelNew1 == <<"uint32_t", " tmp = neigh_map[n * V + v];">>
KernelOld2 ==
    <<"*(", "uint", "*)&neigh_map_T[v * N + n + n_base] = tmp;">>
KernelNew2 ==
    <<"*(", "uint32_t", "*)&neigh_map_T[v * N + n + n_base] = tmp;">>
KernelOld3 ==
    <<"*(", "uint", "*)&neigh_mask_T[v * N + n + n_base] = tmp;">>
KernelNew3 ==
    <<"*(", "uint32_t", "*)&neigh_mask_T[v * N + n + n_base] = tmp;">>

\* the three content.replace calls
FlexgemmPatch(content) ==
    StrReplace(StrReplace(StrReplace(content, KernelOld1, KernelNew1),
                          KernelOld2, KernelNew2),
               KernelOld3, KernelNew3)

\* ------------------------------------------------- fix_cumesh_setup rules
NV == "\"nvcc\": ["
O3 == "\"-O3\",\"-std=c++17\"] + cc_flag"
CM == ","
CL == "],"
XCF == "\"-Xcudafe\""
DS == "\"--diag_suppress=2872\""
SEP == ", "
PLUSA == " + [\n                    "
CNLA == ",\n                "
CXX == "\"cxx\": [\"-O3\", \"-std=c++17\""
DSS == "\"-Dssize_t=ptrdiff_t\""
PLUSC == " + [\n                        "
HALF ==
    "\"--extended-lambda\",\n                        \"--expt-relaxed-constexpr\",\n                        # The following definitions must be undefined\n                        # since we need half-precision operation.\n                        \"-U__CUDA_NO_HALF_OPERATORS__\",\n                        \"-U__CUDA_NO_HALF_CONVERSIONS__\",\n                        \"-U__CUDA_NO_HALF2_OPERATORS__\",\n"
IND24 == "                        "
CNL == ",\n"
RB == "                    ]"
NameC == "name='cumesh._C'"
NameCubvh == "name='cumesh._cubvh'"
NameXatlas == "name='cumesh._xatlas'"

NvccOld == <<NV, O3, CM>>
NvccNew == <<NV, O3, PLUSA, XCF, SEP, DS, CNLA, CL>>
CxxOld == <<CXX, CL>>
CxxNew == <<CXX, SEP, DSS, CL>>
CubvhNvccOld == <<NV, O3, PLUSC, HALF, RB>>
CubvhNvccNew == <<NV, O3, PLUSC, HALF, IND24, XCF, SEP, DS, CNL, RB>>

\* content.split('"nvcc": [')[1] raises IndexError unless the text occurs
NvccSectionExists(content) == SplitLen(content, <<NV>>) >= 2

\* content.split('"nvcc": [')[1].split('],')[0]
NvccSection(content) == SplitFirst(SplitSecond(content, <<NV>>), <<CL>>)

\* the first fix: -Xcudafe --diag_suppress=2872 for cumesh._C
CumeshFixNvcc(content) ==
    LET nvcc_section == NvccSection(content)
    IN  IF ~Contains(nvcc_section, <<XCF>>) \/ ~Contains(nvcc_section, <<DS>>)
        THEN StrReplace(content, NvccOld, NvccNew)
        ELSE content

\* the second fix: -Dssize_t=ptrdiff_t for cumesh._cubvh
CumeshFixCxx(content) ==
    LET cubvh_start == Find(content, <<NameCubvh>>)
        xatlas_start == Find(content, <<NameXatlas>>)
        cubvh_section == Slice(content, cubvh_start, xatlas_start)
    IN  IF cubvh_start # -1 /\ xatlas_start # -1
        THEN IF ~Contains(cubvh_section, <<DSS>>)
             THEN StrReplace(content, cubvh_section,
                             StrReplaceN(cubvh_section, CxxOld, CxxNew, 1))
             ELSE content
        ELSE content

\* the third fix: -Xcudafe --diag_suppress=2872 for cumesh._cubvh
CumeshFixCubvhNvcc(content) ==
    IF Contains(content, CubvhNvccOld)
    THEN StrReplace(content, CubvhNvccOld, CubvhNvccNew)
    ELSE content

CumeshPatch(content) ==
    CumeshFixCubvhNvcc(CumeshFixCxx(CumeshFixNvcc(content)))

\* ------------------------------------------------ fix_o_voxel_files rules
CodesHead == "torch::Tensor codes_tensor = torch::from_blob"
SvoHead == "torch::Tensor svo_tensor = torch::from_blob"
Cast == "static_cast<int64_t>"

SvoCodesBad ==
    <<CodesHead, "(", "codes", ".", "data", "(", ")", ", {",
      "codes", ".", "size", "(", ")",
      "}, torch::kInt32", ")", ".", "clone", "(", ")", ";">>
SvoCodesFixed ==
    <<CodesHead, "(", "codes", ".", "data", "(", ")", ", {",
      Cast, "(", "codes", ".", "size", "(", ")", ")",
      "}, torch::kInt32", ")", ".", "clone", "(", ")", ";">>
SvoSvoBad ==
    <<SvoHead, "(", "svo", ".", "data", "(", ")", ", {",
      "svo", ".", "size", "(", ")",
      "}, torch::kUInt8", ")", ".", "clone", "(", ")", ";">>
SvoSvoFixed ==
    <<SvoHead, "(", "svo", ".", "data", "(", ")", ", {",
      Cast, "(", "svo", ".", "size", "(", ")", ")",
      "}, torch::kUInt8", ")", ".", "clone", "(", ")", ";">>

\* re.compile of the first svo_fixes pattern: its parentheses are groups, its
\* dots match any character
SvoCodesPattern ==
    <<Lit(CodesHead), Lit("codes"), Dot, Lit("data"), EmptyGroup, Lit(", {"),
      Lit("codes"), Dot, Lit("size"), EmptyGroup, Lit("}, torch::kInt32"),
      Dot, Lit("clone"), EmptyGroup, Lit(";")>>
SvoSvoPattern ==
    <<Lit(SvoHead), Lit("svo"), Dot, Lit("data"), EmptyGroup, Lit(", {"),
      Lit("svo"), Dot, Lit("size"), EmptyGroup, Lit("}, torch::kUInt8"),
      Dot, Lit("clone"), EmptyGroup, Lit(";")>>

svo_fixes ==
    <<[pat |-> SvoCodesPattern, repl |-> LitsOf(SvoCodesFixed)],
      [pat |-> SvoSvoPattern, repl |-> LitsOf(SvoSvoFixed)]>>

Words == {"N", "C", "Foo", "Bar", "mask", "auto"}
TensorDecl == "torch::Tensor"
ZerosOpen == "torch::zeros({"
ArgsClose == "},"
DtypeTail == "torch::dtype(torch::kUInt8));"
CastOpen == "static_cast<int64_t>("

\* (\s*)torch::Tensor\s+(\w+)\s*=\s*torch::zeros\(\{(\w+),\s*(\w+)\},\s*
\* torch::dtype\(torch::kUInt8\)\);
ZerosPattern ==
    <<[cls |-> WS, q |-> "*", g |-> 1],
      Lit(TensorDecl),
      [cls |-> WS, q |-> "+", g |-> 0],
      [cls |-> Words, q |-> "+", g |-> 2],
      [cls |-> WS, q |-> "*", g |-> 0],
      Lit("="),
      [cls |-> WS, q |-> "*", g |-> 0],
      Lit(ZerosOpen),
      [cls |-> Words, q |-> "+", g |-> 3],
      Lit(","),
      [cls |-> WS, q |-> "*", g |-> 0],
      [cls |-> Words, q |-> "+", g |-> 4],
      Lit(ArgsClose),
      [cls |-> WS, q |-> "*", g |-> 0],
      Lit(DtypeTail)>>

\* the replacement with its two argument references exchanged
ZerosReplSwapped ==
    <<[ref |-> 1], [lit |-> TensorDecl], [lit |-> " "], [ref |-> 2],
      [lit |-> " "], [lit |-> "="], [lit |-> " "], [lit |-> ZerosOpen],
      [lit |-> CastOpen], [ref |-> 4], [lit |-> ")"], [lit |-> ","],
      [lit |-> " "], [lit |-> CastOpen], [ref |-> 3], [lit |-> ")"],
      [lit |-> ArgsClose], [lit |-> " "], [lit |-> DtypeTail]>>

\* \1torch::Tensor \2 = torch::zeros({static_cast<int64_t>(\3),
\* static_cast<int64_t>(\4)}, torch::dtype(torch::kUInt8));
ZerosRepl ==
    <<[ref |-> 1], [lit |-> TensorDecl], [lit |-> " "], [ref |-> 2],
      [lit |-> " "], [lit |-> "="], [lit |-> " "], [lit |-> ZerosOpen],
      [lit |-> CastOpen], [ref |-> 3], [lit |-> ")"], [lit |-> ","],
      [lit |-> " "], [lit |-> CastOpen], [ref |-> 4], [lit |-> ")"],
      [lit |-> ArgsClose], [lit |-> " "], [lit |-> DtypeTail]>>

neighbor_fixes == <<[pat |-> ZerosPattern, repl |-> ZerosRepl]>>
parent_fixes == <<[pat |-> ZerosPattern, repl |-> ZerosRepl]>>

\* '1e-6d' and '0.0d' as re.sub compiles them
grid_fixes ==
    <<[pat |-> <<Lit("1e-6"), Lit("d")>>, repl |-> <<[lit |-> "1e-6"]>>],
      [pat |-> <<Lit("0"), Dot, Lit("0"), Lit("d")>>,
       repl |-> <<[lit |-> "0"], [lit |-> "."], [lit |-> "0"]>>]>>

RECURSIVE ApplyRules(_, _)
\* for pattern, replacement in replacements: content = re.sub(...)
ApplyRules(replacements, content) ==
    IF replacements = <<>> THEN content
    ELSE ApplyRules(Tail(replacements),
                    ReSub(Head(replacements).pat, Head(replacements).repl,
                          content))

\* ------------------------------------------- fix_nvdiffrec_manifest rules
ManifestLine == "recursive-include nvdiffrec_render/renderutils/c_src *.h\n"
expected_content == <<ManifestLine>>

\* ------------------------------------------------------------ the state
VARIABLES
    platform,   \* platform.system()
    pc,         \* the statement of __main__ that runs next
    fs,         \* the target files: path -> [exists, text]
    dirs,       \* the directories that exist, among ManifestDir and TargetDir
    console,    \* the lines printed by the current run
    opened,     \* the files the current run has opened for writing
    faults,     \* I/O errors raised so far
    run,        \* the number of the current invocation
    start       \* fs and dirs when the current run started

vars == <<platform, pc, fs, dirs, console, opened, faults, run, start>>

Platforms == {"Windows", "Linux", "Darwin"}

Line(msg, path) == [msg |-> msg, path |-> path]

\* the exception classes named in the except clauses
FlexgemmCaught == {"OSError", "UnicodeDecodeError"}
CumeshReadCaught == {"OSError", "UnicodeDecodeError"}
CumeshWriteCaught == {"OSError", "UnicodeEncodeError"}
ApplyCaught == {"OSError", "UnicodeError"}
ManifestReadCaught == {"OSError", "UnicodeDecodeError"}
ManifestWriteCaught == {"OSError", "UnicodeEncodeError"}

\* except (classes) as e: a class catches itself and its subclasses
Catches(classes, exc) ==
    \/ exc \in classes
    \/ exc \in {"UnicodeDecodeError", "UnicodeEncodeError"}
           /\ "UnicodeError" \in classes

\* what the environment may answer to open(path, 'r') and f.read()
ReadOutcomes(used) ==
    {"ok"} \cup
        (IF faults + used < MaxFaults
         THEN {"OSError", "UnicodeDecodeError"} ELSE {})

\* an exception reaches the handler of the enclosing try, or leaves the script
Raise(exc, classes, lines, next) ==
    IF Catches(classes, exc)
    THEN /\ console' = console \o lines
         /\ pc' = next
    ELSE /\ pc' = "crashed"
         /\ UNCHANGED console

(***************************************************************************)
(* with open(path, 'w', encoding='utf-8') as f: f.write(content), then     *)
(* print(ok).  open() may raise OSError and leave the file as it is;       *)
(* once open() has returned the file is empty, and an OSError from write   *)
(* or from the flush at close leaves it with a proper prefix of content    *)
(* (of at most MaxPartial symbols here).  The text was decoded from UTF-8, *)
(* so encoding it cannot fail.  `printed` are the lines the action printed *)
(* before, `used` the faults it has used.                                  *)
(***************************************************************************)
WriteFile(path, content, printed, ok, err, classes, used, next) ==
    \/ /\ fs' = [fs EXCEPT ![path] = File(content)]
       /\ opened' = opened \cup {path}
       /\ console' = console \o printed \o <<ok>>
       /\ pc' = next
       /\ faults' = faults + used
    \/ /\ faults + used < MaxFaults
       /\ faults' = faults + used + 1
       /\ \/ UNCHANGED <<fs, opened>>
          \/ \E k \in 0..Min(Len(content) - 1, MaxPartial) :
                 /\ fs' = [fs EXCEPT ![path] = File(SubSeq(content, 1, k))]
                 /\ opened' = opened \cup {path}
       /\ Raise("OSError", classes, printed \o <<err>>, next)

\* ------------------------------------------------------------- __main__
\* the gate taking every system but Linux for Windows
IsWindowsNotLinux(p) == p # "Linux"

IsWindows(p) == p = "Windows"

MainWindows ==
    /\ pc = "main"
    /\ IsWindows(platform)
    /\ pc' = "fix_flexgemm_cuda_file"
    /\ UNCHANGED <<platform, fs, dirs, console, opened, faults, run, start>>

MainSkip ==
    /\ pc = "main"
    /\ ~IsWindows(platform)
    /\ console' = Append(console, Line("Not on Windows, skipping fixes.", ""))
    /\ pc' = "done"
    /\ UNCHANGED <<platform, fs, dirs, opened, faults, run, start>>

fix_flexgemm_cuda_file ==
    /\ pc = "fix_flexgemm_cuda_file"
    /\ LET file_path == KernelPath
           next == "fix_cumesh_setup"
       IN  IF ~fs[file_path].exists
           THEN /\ console' = Append(console, Line("File not found", file_path))
                /\ pc' = next
                /\ UNCHANGED <<fs, opened, faults>>
           ELSE \E r \in ReadOutcomes(0) :
                  IF r # "ok"
                  THEN /\ Raise(r, FlexgemmCaught,
                                <<Line("Error processing", file_path)>>, next)
                       /\ faults' = faults + 1
                       /\ UNCHANGED <<fs, opened>>
                  ELSE LET original_content == fs[file_path].text
                           content == FlexgemmPatch(original_content)
                       IN  IF content # original_content
                           THEN WriteFile(file_path, content, <<>>,
                                    Line("Fixed", file_path),
                                    Line("Error processing", file_path),
                                    FlexgemmCaught, 0, next)
                           ELSE /\ console' = Append(console,
                                        Line("already fixed or no changes needed",
                                             file_path))
                                /\ pc' = next
                                /\ UNCHANGED <<fs, opened, faults>>
    /\ UNCHANGED <<platform, dirs, run, start>>

fix_cumesh_setup ==
    /\ pc = "fix_cumesh_setup"
    /\ LET file_path == SetupPath
           next == "o_voxel_svo"
       IN  IF ~fs[file_path].exists
           THEN /\ console' = Append(console, Line("File not found", file_path))
                /\ pc' = next
                /\ UNCHANGED <<fs, opened, faults>>
           ELSE \E r \in ReadOutcomes(0) :
                  IF r # "ok"
                  THEN /\ Raise(r, CumeshReadCaught,
                                <<Line("Error reading", file_path)>>, next)
                       /\ faults' = faults + 1
                       /\ UNCHANGED <<fs, opened>>
                  ELSE LET original_content == fs[file_path].text
                       IN  IF ~NvccSectionExists(original_content)
                           THEN \* IndexError, outside every try
                                /\ Raise("IndexError", {}, <<>>, next)
                                /\ UNCHANGED <<fs, opened, faults>>
                           ELSE LET content == CumeshPatch(original_content)
                                IN  IF content # original_content
                                    THEN WriteFile(file_path, content, <<>>,
                                             Line("Fixed", file_path),
                                             Line("Error writing", file_path),
                                             CumeshWriteCaught, 0, next)
                                    ELSE /\ console' = Append(console,
                                                 Line("already fixed or no changes needed",
                                                      file_path))
                                         /\ pc' = next
                                         /\ UNCHANGED <<fs, opened, faults>>
    /\ UNCHANGED <<platform, dirs, run, start>>

\* _apply_file_fixes(file_path, replacements, description)
_apply_file_fixes(file_path, replacements, next) ==
    IF ~fs[file_path].exists
    THEN /\ pc' = next
         /\ UNCHANGED <<fs, opened, faults, console>>
    ELSE \E r \in ReadOutcomes(0) :
           IF r # "ok"
           THEN /\ Raise(r, ApplyCaught,
                         <<Line("Error processing", file_path)>>, next)
                /\ faults' = faults + 1
                /\ UNCHANGED <<fs, opened>>
           ELSE LET original_content == fs[file_path].text
                    content == ApplyRules(replacements, original_content)
                IN  IF content # original_content
                    THEN WriteFile(file_path, content, <<>>,
                             Line("Fixed", file_path),
                             Line("Error processing", file_path),
                             ApplyCaught, 0, next)
                    ELSE /\ console' = Append(console,
                                 Line("already fixed or no changes needed",
                                      file_path))
                         /\ pc' = next
                         /\ UNCHANGED <<fs, opened, faults>>

\* fix_o_voxel_files, one step for each of its four calls
o_voxel_svo ==
    /\ pc = "o_voxel_svo"
    /\ _apply_file_fixes(SvoPath, svo_fixes, "o_voxel_neighbor")
    /\ UNCHANGED <<platform, dirs, run, start>>

o_voxel_neighbor ==
    /\ pc = "o_voxel_neighbor"
    /\ _apply_file_fixes(NeighborPath, neighbor_fixes, "o_voxel_parent")
    /\ UNCHANGED <<platform, dirs, run, start>>

o_voxel_parent ==
    /\ pc = "o_voxel_parent"
    /\ _apply_file_fixes(ParentPath, parent_fixes, "o_voxel_grid")
    /\ UNCHANGED <<platform, dirs, run, start>>

o_voxel_grid ==
    /\ pc = "o_voxel_grid"
    /\ _apply_file_fixes(GridPath, grid_fixes, "fix_nvdiffrec_manifest")
    /\ UNCHANGED <<platform, dirs, run, start>>

\* the comparison weakened to current_content.startswith(expected_content)
ManifestStartsWith(current_content) ==
    StartsAt(current_content, 1, expected_content)

\* current_content == expected_content
ManifestUpToDate(current_content) == current_content = expected_content

fix_nvdiffrec_manifest ==
    /\ pc = "fix_nvdiffrec_manifest"
    /\ LET manifest_file == ManifestPath
           next == "done"
           created == Line("Created/updated", manifest_file)
           failed == Line("Error creating/updating", manifest_file)
       IN  IF TargetDir \notin dirs
           THEN /\ console' = Append(console,
                        Line("Warning: target directory does not exist",
                             manifest_file))
                /\ pc' = next
                /\ UNCHANGED <<fs, opened, faults, dirs>>
           ELSE IF fs[manifest_file].exists
                THEN \E r \in ReadOutcomes(0) :
                       IF r # "ok"
                       THEN \* the error is printed and the file overwritten
                            /\ Catches(ManifestReadCaught, r)
                            /\ dirs' = dirs \cup {ManifestDir}
                            /\ WriteFile(manifest_file, expected_content,
                                   <<Line("Error reading existing", manifest_file)>>,
                                   created, failed, ManifestWriteCaught, 1, next)
                       ELSE IF ManifestUpToDate(fs[manifest_file].text)
                            THEN /\ console' = Append(console,
                                         Line("already has correct content",
                                              manifest_file))
                                 /\ pc' = next
                                 /\ UNCHANGED <<fs, opened, faults, dirs>>
                            ELSE /\ dirs' = dirs \cup {ManifestDir}
                                 /\ WriteFile(manifest_file, expected_content,
                                        <<>>, created, failed,
                                        ManifestWriteCaught, 0, next)
                ELSE /\ dirs' = dirs \cup {ManifestDir}
                     /\ WriteFile(manifest_file, expected_content, <<>>,
                            created, failed, ManifestWriteCaught, 0, next)
    /\ UNCHANGED <<platform, run, start>>

\* the script is invoked again
Rerun ==
    /\ pc \in {"done", "crashed"}
    /\ run < MaxRuns
    /\ run' = run + 1
    /\ pc' = "main"
    /\ console' = <<>>
    /\ opened' = {}
    /\ start' = [fs |-> fs, dirs |-> dirs]
    /\ UNCHANGED <<platform, fs, dirs, faults>>

Next ==
    \/ MainWindows
    \/ MainSkip
    \/ fix_flexgemm_cuda_file
    \/ fix_cumesh_setup
    \/ o_voxel_svo
    \/ o_voxel_neighbor
    \/ o_voxel_parent
    \/ o_voxel_grid
    \/ fix_nvdiffrec_manifest
    \/ Rerun

\* ------------------------------------------------- the initial states
SeqsUpTo(S, n) == UNION {[1..k -> S] : k \in 0..n}

\* neighbor_map.cu: statements to fix, fixed ones and others
KernelStmts ==
    {KernelOld1, KernelNew1, KernelOld2, KernelOld3, <<"__syncthreads();">>}
KernelContents ==
    {Concat(stmts) : stmts \in SeqsUpTo(KernelStmts, MaxKernelLines)}

\* setup.py: the sections of the extensions, to fix, fixed and others
SecC == <<NameC, CXX, CL, NV, O3, CM>>
SecCFixed == <<NameC, CXX, CL>> \o NvccNew
SecCOther == <<NameC, NV, "\"-O2\"", CL>>
SecCubvh == <<NameCubvh, CXX, CL>> \o CubvhNvccOld
SecXatlas == <<NameXatlas, CXX, CL, NV, O3, CM>>
SecPlain == <<"import os\n">>
SetupSections == {SecC, SecCFixed, SecCOther, SecCubvh, SecXatlas, SecPlain}
SetupContents ==
    {Concat(secs) : secs \in SeqsUpTo(SetupSections, MaxBlocks)}

\* svo.cpp: the two statements, fixed or not, the text the first pattern
\* matches as a regular expression, and another statement
SvoCodesShape ==
    <<CodesHead, "codes", ".", "data", ", {", "codes", ".", "size",
      "}, torch::kInt32", ".", "clone", ";">>
SvoStmts ==
    {SvoCodesBad, SvoCodesFixed, SvoSvoBad, SvoSvoFixed, SvoCodesShape,
     <<"return", ";">>}
SvoContents == {Concat(stmts) : stmts \in SeqsUpTo(SvoStmts, MaxSvoLines)}

\* filter_neighbor.cpp and filter_parent.cpp: statements that call
\* torch::zeros, one to a line
ArgPairs == {<<"N", "C">>, <<"Foo", "Bar">>}
Leads == {<<>>, <<" ", " ">>}
UpstreamDecl == <<TensorDecl, " ", "mask", " ", "=", " ">>
Decls ==
    {<<TensorDecl, " ", "mask", " ", "=", " ">>,
     <<TensorDecl, " ", " ", "mask", "=">>,
     <<"auto", " ", "mask", " ", "=", " ">>,
     <<>>}
Gaps == {<<>>, <<" ">>}
PlainCall(a, gap) ==
    <<ZerosOpen, a[1], ",">> \o gap \o <<a[2], ArgsClose, " ", DtypeTail>>
CastCall(a) ==
    <<ZerosOpen, CastOpen, a[1], ")", ",", " ", CastOpen, a[2], ")",
      ArgsClose, " ", DtypeTail>>
Calls ==
    {PlainCall(a, gap) : a \in ArgPairs, gap \in Gaps}
        \cup {CastCall(a) : a \in ArgPairs}
ZerosStmts ==
    {lead \o decl \o call \o <<"\n">> :
         lead \in Leads, decl \in Decls, call \in Calls}
ZerosContents == {Concat(stmts) : stmts \in SeqsUpTo(ZerosStmts, MaxLines)}

\* flexible_dual_grid.cpp: numeric literals
GridSymbols == {"0", ".", "d", "x", "1e-6"}
GridContents == SeqsUpTo(GridSymbols, MaxLen)

\* MANIFEST.in
ManifestContents ==
    SeqsUpTo({ManifestLine, "include README.md\n"}, MaxManifestLen)

AllMissing == [p \in Paths |-> Missing]

\* every target file as its upstream project ships it
Upstream ==
    [p \in Paths |->
        CASE p = KernelPath -> File(KernelOld1 \o KernelOld2 \o KernelOld3)
          [] p = SetupPath -> File(SecC \o SecCubvh \o SecXatlas)
          [] p = SvoPath -> File(SvoCodesBad \o SvoSvoBad)
          [] p = NeighborPath ->
                 File(UpstreamDecl \o PlainCall(<<"N", "C">>, <<" ">>) \o <<"\n">>)
          [] p = ParentPath ->
                 File(UpstreamDecl \o PlainCall(<<"N", "C">>, <<" ">>) \o <<"\n">>)
          [] p = GridPath -> File(<<"1e-6", "d", "0", ".", "0", "d">>)
          [] OTHER -> Missing]

ContentsOf(p) ==
    CASE p = KernelPath -> KernelContents
      [] p = SetupPath -> SetupContents
      [] p = SvoPath -> SvoContents
      [] p = NeighborPath -> ZerosContents
      [] p = ParentPath -> ZerosStmts
      [] p = GridPath -> GridContents
      [] OTHER -> ManifestContents

\* TargetDir lies under ManifestDir, and MANIFEST.in in ManifestDir
DirStates == {{}, {ManifestDir}, {ManifestDir, TargetDir}}

\* one source file with any of its contents, the other files missing
SourceStates ==
    UNION {{[fs |-> [AllMissing EXCEPT ![p] = File(c)], dirs |-> {}] :
                c \in ContentsOf(p)} : p \in Paths \ {ManifestPath}}

\* MANIFEST.in missing or with any of its contents, in any directory state
ManifestStates ==
    {s \in {[fs |-> [AllMissing EXCEPT ![ManifestPath] = f], dirs |-> d] :
                f \in {File(c) : c \in ManifestContents} \cup {Missing},
                d \in DirStates} :
         s.fs[ManifestPath].exists => ManifestDir \in s.dirs}

InitialStates ==
    SourceStates \cup ManifestStates
        \cup {[fs |-> Upstream, dirs |-> d] : d \in DirStates}

Init ==
    /\ platform \in Platforms
    /\ \E s \in InitialStates :
           /\ fs = s.fs
           /\ dirs = s.dirs
    /\ pc = "main"
    /\ console = <<>>
    /\ opened = {}
    /\ faults = 0
    /\ run = 1
    /\ start = [fs |-> fs, dirs |-> dirs]

Spec == Init /\ [][Next]_vars

\* ------------------------------------------------------------ the claims
Steps ==
    <<"main", "fix_flexgemm_cuda_file", "fix_cumesh_setup", "o_voxel_svo",
      "o_voxel_neighbor", "o_voxel_parent", "o_voxel_grid",
      "fix_nvdiffrec_manifest", "done">>

Pos(step) == CHOOSE i \in 1..Len(Steps) : Steps[i] = step

StepOf(path) ==
    CASE path = KernelPath -> "fix_flexgemm_cuda_file"
      [] path = SetupPath -> "fix_cumesh_setup"
      [] path = SvoPath -> "o_voxel_svo"
      [] path = NeighborPath -> "o_voxel_neighbor"
      [] path = ParentPath -> "o_voxel_parent"
      [] path = GridPath -> "o_voxel_grid"
      [] OTHER -> "fix_nvdiffrec_manifest"

\* the current run has finished the step that handles path
Handled(path) ==
    /\ platform = "Windows"
    /\ pc # "crashed"
    /\ Pos(pc) > Pos(StepOf(path))

LinesFor(path) == SelectSeq(console, LAMBDA l : l.path = path)

Category(msg) ==
    CASE msg \in {"Fixed", "Created/updated"} -> "fixed"
      [] msg \in {"already fixed or no changes needed",
                  "already has correct content"} -> "already-fixed"
      [] msg = "File not found" -> "not-found"
      [] msg \in {"Error processing", "Error reading", "Error writing",
                  "Error reading existing", "Error creating/updating"} -> "error"
      [] OTHER -> "other"

SourcePaths == Paths \ {ManifestPath}

\* C1: on Windows no error escapes from a fix function, whatever the state of
\* the target files: the run never ends with an uncaught exception.
C1_NoErrorEscapes == platform = "Windows" => pc # "crashed"

\* C2: a second run in succession leaves every file it handles as the first
\* run left it, writes nothing and reports the file as already fixed.
C2_Idempotent ==
    (run = 2 /\ faults = 0) =>
        \A p \in Paths :
            (/\ Handled(p)
             /\ start.fs[p].exists
             /\ p = ManifestPath => TargetDir \in dirs) =>
                /\ fs[p] = start.fs[p]
                /\ p \notin opened
                /\ Len(LinesFor(p)) = 1
                /\ Category(LinesFor(p)[1].msg) = "already-fixed"

\* C3: off Windows a run calls no fix function, opens no file for writing,
\* creates no file or directory, changes no file, and prints the skip notice
\* and nothing else.
C3_PlatformGate ==
    platform # "Windows" =>
        /\ pc \in {"main", "done"}
        /\ fs = start.fs
        /\ dirs = start.dirs
        /\ opened = {}
        /\ pc = "main" => console = <<>>
        /\ pc = "done" =>
               console = <<Line("Not on Windows, skipping fixes.", "")>>

C3_Witness ==
    /\ platform = "Linux"
    /\ pc = "done"
    /\ Len(console) = 1
    /\ fs[GridPath] = File(<<"0", ".", "0", "d">>)

\* C4: a finished Windows run has printed exactly one status line for every
\* target file, of the category fixed, already-fixed, not-found or error, and
\* a not-found line for a file that does not exist.
C4_OneStatusLine ==
    (platform = "Windows" /\ pc = "done") =>
        \A p \in Paths :
            /\ Len(LinesFor(p)) = 1
            /\ Category(LinesFor(p)[1].msg)
                   \in {"fixed", "already-fixed", "not-found", "error"}
            /\ ~start.fs[p].exists =>
                   Category(LinesFor(p)[1].msg) = "not-found"

\* C5: when svo.cpp holds one of the two uncast from_blob statements, then
\* after the fix it holds the statement with the cast and no longer the
\* uncast one.
C5_SvoCast ==
    (run = 1 /\ faults = 0 /\ Handled(SvoPath)) =>
        \A st \in {<<SvoCodesBad, SvoCodesFixed>>, <<SvoSvoBad, SvoSvoFixed>>} :
            Contains(start.fs[SvoPath].text, st[1]) =>
                /\ Contains(fs[SvoPath].text, st[2])
                /\ ~Contains(fs[SvoPath].text, st[1])

\* the text with every token 1e-6d replaced by 1e-6 and every token 0.0d by
\* 0.0, and nothing else changed
SuffixesStripped(text) ==
    StrReplace(StrReplace(text, <<"1e-6", "d">>, <<"1e-6">>),
               <<"0", ".", "0", "d">>, <<"0", ".", "0">>)

\* C6: the fix of flexible_dual_grid.cpp turns 1e-6d into 1e-6 and 0.0d into
\* 0.0 and changes no other text of the file.
C6_LiteralSuffix ==
    (run = 1 /\ faults = 0 /\ Handled(GridPath)) =>
        fs[GridPath].text = SuffixesStripped(start.fs[GridPath].text)

NoLine(path, msg) == \A i \in 1..Len(console) : console[i] # Line(msg, path)

\* C7: after fix_nvdiffrec_manifest, if the header directory exists and no
\* write failed, MANIFEST.in holds exactly the expected line; if it was read
\* and held exactly that line nothing is written and "already has correct
\* content" is printed; if the directory does not exist MANIFEST.in is
\* neither created nor changed.
C7_Manifest ==
    (platform = "Windows" /\ pc = "done") =>
        LET before == start.fs[ManifestPath]
            after == fs[ManifestPath]
        IN  /\ (/\ TargetDir \in start.dirs
                /\ NoLine(ManifestPath, "Error creating/updating")) =>
                   after = File(<<ManifestLine>>)
            /\ (/\ TargetDir \in start.dirs
                /\ before = File(<<ManifestLine>>)
                /\ NoLine(ManifestPath, "Error reading existing")) =>
                   /\ ManifestPath \notin opened
                   /\ LinesFor(ManifestPath) =
                          <<Line("already has correct content", ManifestPath)>>
            /\ TargetDir \notin start.dirs =>
                   /\ after = before
                   /\ ManifestPath \notin opened

C7_Witness ==
    /\ platform = "Windows"
    /\ pc = "done"
    /\ TargetDir \in start.dirs
    /\ ~start.fs[ManifestPath].exists
    /\ ManifestPath \in opened
    /\ fs[ManifestPath] = File(<<ManifestLine>>)

\* C8 as written: whenever the file holds the call torch::zeros({A, B},
\* torch::dtype(torch::kUInt8)); the fix wraps both arguments, and a call
\* whose arguments are wrapped stays as it is.
C8_AnyCallWrapped ==
    \A p \in {NeighborPath, ParentPath} :
        (run = 1 /\ faults = 0 /\ Handled(p)) =>
            \A a \in ArgPairs :
                /\ Contains(start.fs[p].text, PlainCall(a, <<" ">>)) =>
                       /\ Contains(fs[p].text, CastCall(a))
                       /\ ~Contains(fs[p].text, PlainCall(a, <<" ">>))
                /\ Contains(start.fs[p].text, CastCall(a)) =>
                       Contains(fs[p].text, CastCall(a))

RECURSIVE SplitStmts(_, _)
\* the statements of a text, each ending with its newline; acc is the
\* statement being read
SplitStmts(text, acc) ==
    IF text = <<>> THEN (IF acc = <<>> THEN <<>> ELSE <<acc>>)
    ELSE IF Head(text) = "\n"
         THEN <<Append(acc, "\n")>> \o SplitStmts(Tail(text), <<>>)
         ELSE SplitStmts(Tail(text), Append(acc, Head(text)))

\* a statement the fix is to rewrite: white space, then the declaration
\* torch::Tensor <name> = torch::zeros({A, B}, torch::dtype(torch::kUInt8));
\* with identifiers A and B and any spacing
IsTensorDecl(stmt, lead, decl, a, gap) ==
    /\ Head(decl) = TensorDecl
    /\ stmt = lead \o decl \o PlainCall(a, gap) \o <<"\n">>

WrappedStmt(stmt) ==
    IF \E lead \in Leads, decl \in Decls \ {<<>>}, a \in ArgPairs, gap \in Gaps :
           IsTensorDecl(stmt, lead, decl, a, gap)
    THEN LET c == CHOOSE c \in Leads \X ArgPairs :
                      \E decl \in Decls \ {<<>>}, gap \in Gaps :
                          IsTensorDecl(stmt, c[1], decl, c[2], gap)
         IN  c[1] \o <<TensorDecl, " ", "mask", " ", "=", " ">>
                  \o CastCall(c[2]) \o <<"\n">>
    ELSE stmt

RECURSIVE WrappedStmts(_)
WrappedStmts(stmts) ==
    IF stmts = <<>> THEN <<>>
    ELSE WrappedStmt(Head(stmts)) \o WrappedStmts(Tail(stmts))

\* C8: the fix wraps both arguments of torch::zeros({A, B},
\* torch::dtype(torch::kUInt8)); where the call initialises a declaration
\* torch::Tensor <name> = ..., whatever A, B and the spacing are, and leaves
\* every other statement as it is: a call that is not such an initialiser and
\* a call whose arguments are wrapped.
C8_TensorDeclWrapped ==
    \A p \in {NeighborPath, ParentPath} :
        (run = 1 /\ faults = 0 /\ Handled(p)) =>
            fs[p].text = WrappedStmts(SplitStmts(start.fs[p].text, <<>>))

C8_Witness ==
    /\ run = 1
    /\ faults = 0
    /\ Handled(NeighborPath)
    /\ start.fs[NeighborPath].text =
           <<" ", " ", TensorDecl, " ", " ", "mask", "=">>
               \o PlainCall(<<"Foo", "Bar">>, <<>>) \o <<"\n">>
    /\ fs[NeighborPath].text =
           <<" ", " ", TensorDecl, " ", "mask", " ", "=", " ">>
               \o CastCall(<<"Foo", "Bar">>) \o <<"\n">>

\* C9: the first fix of setup.py adds the flag pair to the first nvcc list
\* only: at most one list gains it, and every other list with the text
\* "nvcc": ["-O3","-std=c++17"] + cc_flag, keeps that text.
C9_FirstListOnly ==
    (run = 1 /\ faults = 0 /\ Handled(SetupPath)) =>
        LET before == start.fs[SetupPath].text
            after == fs[SetupPath].text
        IN  /\ Count(after, NvccNew) <= Count(before, NvccNew) + 1
            /\ Count(after, NvccOld) >= Count(before, NvccOld) - 1

\* C10: when the write of the new content fails after the file was opened
\* for writing, the file still has the content it had before.
C10_WriteAtomic ==
    \A p \in SourcePaths :
        (/\ p \in opened
         /\ \E i \in 1..Len(console) :
                /\ console[i].path = p
                /\ Category(console[i].msg) = "error") =>
            fs[p] = start.fs[p]

====
